---- MODULE Spec2Model ----
(***************************************************************************)
(* dns64perf++ : the burst scheduler (DnsTester::test, driven by a Timer), *)
(* the receive loop and answer correlator (DnsTester::start) and the       *)
(* shared test state (num_sent_, tests_, the query template, the mutex).   *)
(*                                                                         *)
(* 32-bit addresses are kept as four octets <<b3, b2, b1, b0>>, the way    *)
(* the source formats and scans them, so that every bit operation keeps    *)
(* its full 32-bit width.                                                  *)
(***************************************************************************)
EXTENDS Integers, Sequences, FiniteSets, TLC

(* ------------------------------ bounds --------------------------------- *)
\* largest num_req_ drawn at construction
MaxReq == 2
\* largest num_burst_ drawn at construction
MaxBurst == 2
\* number of datagrams the network delivers to recvfrom() in one run
MaxDatagrams == 2

(* ------------------------- inputs of a run ----------------------------- *)
\* <<base address, prefix length>> given to the constructor: the widest and
\* the narrowest prefix, and a /24 base with and without host bits set
Networks ==
    { << <<0, 0, 0, 0>>, 0 >>, << <<192, 0, 2, 0>>, 24 >>,
      << <<192, 0, 2, 1>>, 24 >>, << <<192, 0, 2, 0>>, 32 >> }

\* DNS header flags of an answer, <<qr, rcode, ancount>>
AnswerFlags == { <<1, 0, 1>>, <<1, 0, 0>>, <<1, 3, 1>>, <<0, 0, 1>> }

(* ------------------------- pure helpers -------------------------------- *)
Min(a, b) == IF a < b THEN a ELSE b

Max(a, b) == IF a > b THEN a ELSE b

RECURSIVE Pow2(_)
Pow2(k) == IF k = 0 THEN 1 ELSE 2 * Pow2(k - 1)

RECURSIVE Pow10(_)
Pow10(k) == IF k = 0 THEN 1 ELSE 10 * Pow10(k - 1)

\* bitwise OR of two naturals
RECURSIVE BitOr(_, _)
BitOr(a, b) ==
    IF a = 0 THEN b
    ELSE IF b = 0 THEN a
    ELSE Max(a % 2, b % 2) + 2 * BitOr(a \div 2, b \div 2)

\* a 32-bit unsigned value below 2^31 as four octets
ToOctets(n) ==
    << (n \div 16777216) % 256, (n \div 65536) % 256, (n \div 256) % 256, n % 256 >>

\* uint32_t ip = ip_ | num_sent_
OrIp(ip, n) == [j \in 1..4 |-> BitOr(ip[j], ToOctets(n)[j])]

\* the field width of one octet in dns64_addr_format_string
LabelDigits == 3

\* one octet printed in decimal, zero padded
FormatOctet(o) == [k \in 1..LabelDigits |-> (o \div Pow10(LabelDigits - k)) % 10]

\* the same with the last field taken from ip >> 8 again
FormatLabel_repeatOctet(ip) == [j \in 1..4 |-> FormatOctet(ip[IF j = 4 THEN 3 ELSE j])]

\* snprintf(label, dns64_addr_format_string, ip>>24 & 0xff, ip>>16 & 0xff, ip>>8 & 0xff, ip & 0xff)
FormatLabel(ip) == [j \in 1..4 |-> FormatOctet(ip[j])]

RECURSIVE ScanDigits(_, _)
ScanDigits(ds, acc) ==
    IF ds = <<>> THEN acc ELSE ScanDigits(Tail(ds), 10 * acc + Head(ds))

\* one decimal field scanned into a uint8_t
ScanOctet(ds) == ScanDigits(ds, 0) % 256

\* a label sscanf() cannot convert into four fields
BadLabel == <<>>

\* sscanf(label, dns64_addr_format_string, ...) : number of converted fields
ScanCount(label) == Len(label)

\* ip = (temp[0] << 24) | (temp[1] << 16) | (temp[2] << 8) | temp[3]
ScanLabel(label) == [j \in 1..4 |-> ScanOctet(label[j])]

\* the low k bits of a 32-bit value, k in 0..32
MaskLow(ip, k) ==
    [j \in 1..4 |-> ip[j] % Pow2(Min(8, Max(0, k - 8 * (4 - j))))]

\* a 32-bit value compared with a count below 2^24: value >= n
GeNum(ip, n) == ip[1] > 0 \/ (ip[2] * 65536 + ip[3] * 256 + ip[4]) >= n

\* a 32-bit value known to be below 2^24, as a number
OctVal(ip) == ip[2] * 65536 + ip[3] * 256 + ip[4]

\* number of host-ID bits: the shift count 32 - netmask_
HostBits(nm) == 32 - nm

\* (1 << (32 - netmask_)) - 1 computed in int: the number of low bits the
\* mask keeps.  A shift by 32 is undefined: the hardware either takes the
\* count modulo 32 (1 << 32 = 1, mask 0) or shifts the bit out (mask -1).
CheckMaskBits(nm) == IF HostBits(nm) = 32 THEN {0, 32} ELSE {HostBits(nm)}

\* the same rounded up
TimerCount_ceil(n, b) == (n + b - 1) \div b

\* number of timer callbacks requested: (size_t) (num_req_ / num_burst_)
TimerCount(n, b) == n \div b

\* the same with answered_ set
DnsQueryInit_answered == [time_sent |-> 0, received |-> FALSE, answered |-> TRUE, rtt |-> -1]

\* DnsQuery::DnsQuery(): received_{false}, answered_{false}; time_sent_ is
\* the epoch; rtt_ is left unset (-1)
DnsQueryInit == [time_sent |-> 0, received |-> FALSE, answered |-> FALSE, rtt |-> -1]

\* answer.header_->qr() == 1 && rcode() == NoError && ancount() > 0
IsAnswered(flags) == flags[1] = 1 /\ flags[2] = 0 /\ flags[3] > 0

(* ------------------------------ state ---------------------------------- *)
VARIABLES
    ip_, netmask_, num_req_, num_burst_,   \* constructor arguments
    num_sent_,                             \* shared counter
    tests_,                                \* the query records
    query_label,                           \* query_->labels_[0], the address label
    m_,                                    \* the mutex: "free", "timer" or "main"
    timer_on, timer_n, timer_i,            \* Timer: started, callbacks requested, callbacks made
    pc_t, i_t, query_t,                    \* test(): position, loop counter, DnsQuery& query
    pc_m, continue_receiving,              \* start(): position, loop flag
    answer, time_received, ip_m, query_m,  \* start(): datagram, arrival time, decoded ip, DnsQuery& query
    now,                                   \* high_resolution_clock
    ndgrams,                               \* datagrams delivered so far
    what_,                                 \* TestException thrown out of start(), or "none"
    wire, lost,                            \* labels of the queries sent, in order; records whose write was short
    pc_u, i_u, query_u,                    \* a second, overlapping call of test(): position and locals
    records, summary                       \* display(): the record array in runs, the values printed

cfg == <<ip_, netmask_, num_req_, num_burst_>>

shared == <<num_sent_, tests_, query_label, m_>>

timer == <<timer_on, timer_n, timer_i>>

tlocals == <<pc_t, i_t, query_t>>

mlocals == <<pc_m, continue_receiving, answer, time_received, ip_m, query_m>>

env == <<now, ndgrams, what_>>

link == <<wire, lost>>

ulocals == <<pc_u, i_u, query_u>>

report == <<records, summary>>

other == <<ulocals, report>>

vars == <<cfg, shared, timer, tlocals, mlocals, env, link, other>>

NoAnswer == [from_dut |-> TRUE, qdcount |-> 0, label |-> BadLabel]

NoIp == <<0, 0, 0, 0>>

\* nothing printed yet
NoSummary == [sent |-> -1]

\* index of a record reference that points outside tests_
OutOfBounds == -1

\* the datagrams recvfrom() can return in a run: from a foreign sender, with
\* no question, with a label that is no address, and an answer echoing the
\* question of index i (i = num_req_ is one no query asks)
Datagrams ==
    { [from_dut |-> FALSE, qdcount |-> 1, label |-> FormatLabel(ip_)],
      [from_dut |-> TRUE, qdcount |-> 0, label |-> FormatLabel(ip_)],
      [from_dut |-> TRUE, qdcount |-> 1, label |-> BadLabel] }
    \cup
    { [from_dut |-> TRUE, qdcount |-> 1, label |-> FormatLabel(OrIp(ip_, i))] :
        i \in 0..num_req_ }

Init ==
    /\ \E net \in Networks : ip_ = net[1] /\ netmask_ = net[2]
    /\ num_req_ \in 1..MaxReq
    /\ num_burst_ \in 1..MaxBurst
    /\ num_sent_ = 0
    /\ tests_ = [i \in 0..(num_req_ - 1) |-> DnsQueryInit]
    /\ query_label = FormatLabel(NoIp)
    /\ m_ = "free"
    /\ timer_on = FALSE /\ timer_n = 0 /\ timer_i = 0
    /\ pc_t = "idle" /\ i_t = 0 /\ query_t = 0
    /\ pc_m = "start" /\ continue_receiving = TRUE
    /\ answer = NoAnswer /\ time_received = 0 /\ ip_m = NoIp /\ query_m = 0
    /\ now = 1 /\ ndgrams = 0 /\ what_ = "none"
    /\ wire = <<>> /\ lost = {}
    /\ pc_u = "idle" /\ i_u = 0 /\ query_u = 0
    /\ records = <<>> /\ summary = NoSummary

(* --------------------- Timer and DnsTester::test ----------------------- *)
\* the Timer invokes its callback, one call after the other, timer_n times;
\* test() enters its loop (num_burst_ >= 1)
TimerTick ==
    /\ timer_on /\ timer_i < timer_n /\ pc_t = "idle"
    /\ timer_i' = timer_i + 1
    /\ pc_t' = "lock1" /\ i_t' = 0
    /\ UNCHANGED <<other, link, cfg, shared, timer_on, timer_n, query_t, mlocals, env>>

\* m_.lock()
TestLock1 ==
    /\ pc_t = "lock1" /\ m_ = "free"
    /\ m_' = "timer"
    /\ pc_t' = "modify"
    /\ UNCHANGED <<other, link, cfg, num_sent_, tests_, query_label, timer, i_t, query_t, mlocals, env>>

\* the same with the unlock left out
TestModify_keepLock ==
    /\ pc_t = "modify"
    /\ query_t' = num_sent_
    /\ query_label' = FormatLabel(OrIp(ip_, num_sent_))
    /\ pc_t' = "sendto"
    /\ UNCHANGED <<other, link, cfg, num_sent_, tests_, m_, timer, i_t, mlocals, env>>

\* query = tests_[num_sent_]; rewrite the label to ip_ | num_sent_; m_.unlock()
TestModify ==
    /\ pc_t = "modify"
    /\ query_t' = num_sent_
    /\ query_label' = FormatLabel(OrIp(ip_, num_sent_))
    /\ m_' = "free"
    /\ pc_t' = "sendto"
    /\ UNCHANGED <<other, link, cfg, num_sent_, tests_, timer, i_t, mlocals, env>>

\* ::sendto(...): a short write is only logged, the program goes on alike
TestSendto ==
    /\ pc_t = "sendto"
    /\ wire' = Append(wire, query_label)
    /\ pc_t' = "stamp"
    /\ UNCHANGED <<other, lost, cfg, shared, timer, i_t, query_t, mlocals, env>>

\* ::sendto(...) returns less than query_->len_: "Can't send packet." goes
\* to cerr and the query is not sent
TestSendtoShort ==
    /\ pc_t = "sendto"
    /\ lost' = lost \cup {query_t}
    /\ pc_t' = "stamp"
    /\ UNCHANGED <<other, wire, cfg, shared, timer, i_t, query_t, mlocals, env>>

\* query.time_sent_ = now(); the clock of the model advances with each stamp.
\* Through a reference past the end of tests_ the write is undefined: it
\* lands outside the records, or the program faults
TestStamp ==
    /\ pc_t = "stamp"
    /\ IF query_t \in DOMAIN tests_
       THEN tests_' = [tests_ EXCEPT ![query_t].time_sent = now] /\ pc_t' = "lock2"
       ELSE tests_' = tests_ /\ pc_t' \in {"lock2", "crashed"}
    /\ now' = now + 1
    /\ UNCHANGED <<other, link, cfg, num_sent_, query_label, m_, timer, i_t, query_t, mlocals, ndgrams, what_>>

\* m_.lock()
TestLock2 ==
    /\ pc_t = "lock2" /\ m_ = "free"
    /\ m_' = "timer"
    /\ pc_t' = "inc"
    /\ UNCHANGED <<other, link, cfg, num_sent_, tests_, query_label, timer, i_t, query_t, mlocals, env>>

\* num_sent_++; m_.unlock(); i++ and the loop test i < num_burst_
TestInc ==
    /\ pc_t = "inc"
    /\ num_sent_' = num_sent_ + 1
    /\ m_' = "free"
    /\ i_t' = IF i_t + 1 < num_burst_ THEN i_t + 1 ELSE 0
    /\ query_t' = 0
    /\ pc_t' = IF i_t + 1 < num_burst_ THEN "lock1" ELSE "idle"
    /\ UNCHANGED <<other, link, cfg, tests_, query_label, timer, mlocals, env>>

\* the Timer invokes its callback while the previous call has not returned:
\* a second call of test() runs beside the first, with locals of its own
TimerTickOverlap ==
    /\ timer_on /\ timer_i < timer_n /\ pc_t # "idle" /\ pc_u = "idle"
    /\ timer_i' = timer_i + 1
    /\ pc_u' = "lock1" /\ i_u' = 0
    /\ UNCHANGED <<report, link, cfg, shared, timer_on, timer_n, query_u, tlocals, mlocals, env>>

\* m_.lock(), in the second call
OverlapLock1 ==
    /\ pc_u = "lock1" /\ m_ = "free"
    /\ m_' = "overlap"
    /\ pc_u' = "modify"
    /\ UNCHANGED <<report, link, cfg, num_sent_, tests_, query_label, timer, i_u, query_u,
                   tlocals, mlocals, env>>

\* query = tests_[num_sent_]; rewrite the label to ip_ | num_sent_; m_.unlock()
OverlapModify ==
    /\ pc_u = "modify"
    /\ query_u' = num_sent_
    /\ query_label' = FormatLabel(OrIp(ip_, num_sent_))
    /\ m_' = "free"
    /\ pc_u' = "sendto"
    /\ UNCHANGED <<report, link, cfg, num_sent_, tests_, timer, i_u, tlocals, mlocals, env>>

\* ::sendto(...) of the query as its label now reads
OverlapSendto ==
    /\ pc_u = "sendto"
    /\ wire' = Append(wire, query_label)
    /\ pc_u' = "stamp"
    /\ UNCHANGED <<report, lost, cfg, shared, timer, i_u, query_u, tlocals, mlocals, env>>

\* query.time_sent_ = now()
OverlapStamp ==
    /\ pc_u = "stamp"
    /\ IF query_u \in DOMAIN tests_
       THEN tests_' = [tests_ EXCEPT ![query_u].time_sent = now] /\ pc_u' = "lock2"
       ELSE tests_' = tests_ /\ pc_u' \in {"lock2", "crashed"}
    /\ now' = now + 1
    /\ UNCHANGED <<report, link, cfg, num_sent_, query_label, m_, timer, i_u, query_u,
                   tlocals, mlocals, ndgrams, what_>>

\* m_.lock()
OverlapLock2 ==
    /\ pc_u = "lock2" /\ m_ = "free"
    /\ m_' = "overlap"
    /\ pc_u' = "inc"
    /\ UNCHANGED <<report, link, cfg, num_sent_, tests_, query_label, timer, i_u, query_u,
                   tlocals, mlocals, env>>

\* num_sent_++; m_.unlock(); i++ and the loop test i < num_burst_
OverlapInc ==
    /\ pc_u = "inc"
    /\ num_sent_' = num_sent_ + 1
    /\ m_' = "free"
    /\ i_u' = IF i_u + 1 < num_burst_ THEN i_u + 1 ELSE 0
    /\ query_u' = 0
    /\ pc_u' = IF i_u + 1 < num_burst_ THEN "lock1" ELSE "idle"
    /\ UNCHANGED <<report, link, cfg, tests_, query_label, timer, tlocals, mlocals, env>>

\* callbacks a timer may make beyond the requested count
MaxStray == 1

\* a call of test() that the requested count does not cover: the callback
\* is invoked once more after the last tick has returned
StrayTick ==
    /\ timer_on /\ timer_n <= timer_i /\ timer_i < timer_n + MaxStray /\ pc_t = "idle"
    /\ timer_i' = timer_i + 1
    /\ pc_t' = "lock1" /\ i_t' = 0
    /\ UNCHANGED <<other, link, cfg, shared, timer_on, timer_n, query_t, mlocals, env>>

(* -------------------------- DnsTester::start --------------------------- *)
\* throw TestException{...}: start() is left, its locals are gone
Throw(msg) ==
    /\ pc_m' = "thrown"
    /\ what_' = msg
    /\ continue_receiving' = TRUE
    /\ answer' = NoAnswer /\ time_received' = 0 /\ ip_m' = NoIp /\ query_m' = 0

\* the same with the loop test always true
NextIteration_loop ==
    /\ pc_m' = "lock1"
    /\ answer' = NoAnswer /\ time_received' = 0 /\ ip_m' = NoIp /\ query_m' = 0

\* the end of one loop iteration and the test while (continue_receiving):
\* the per-datagram locals go out of scope
NextIteration ==
    /\ pc_m' = IF continue_receiving THEN "lock1" ELSE "returned"
    /\ answer' = NoAnswer /\ time_received' = 0 /\ ip_m' = NoIp /\ query_m' = 0

\* timer_ = new Timer{test, burst_delay_, num_req_ / num_burst_}; timer_->start();
\* continue_receiving = true
MainStart ==
    /\ pc_m = "start"
    /\ timer_on' = TRUE
    /\ timer_n' = TimerCount(num_req_, num_burst_)
    /\ pc_m' = "lock1"
    /\ UNCHANGED <<other, link, cfg, shared, timer_i, tlocals, continue_receiving,
                   answer, time_received, ip_m, query_m, env>>

\* m_.lock()
MainLock1 ==
    /\ pc_m = "lock1" /\ m_ = "free"
    /\ m_' = "main"
    /\ pc_m' = "remaining"
    /\ UNCHANGED <<other, link, cfg, num_sent_, tests_, query_label, timer, tlocals, continue_receiving,
                   answer, time_received, ip_m, query_m, env>>

\* remaining = num_req_ - num_sent_; m_.unlock();
\* if (remaining == 0) continue_receiving = false
MainRemaining ==
    /\ pc_m = "remaining"
    /\ continue_receiving' = IF num_req_ - num_sent_ = 0 THEN FALSE ELSE continue_receiving
    /\ m_' = "free"
    /\ pc_m' = "recvfrom"
    /\ UNCHANGED <<other, link, cfg, num_sent_, tests_, query_label, timer, tlocals,
                   answer, time_received, ip_m, query_m, env>>

\* recvfrom(...) > 0, and time_received = now()
MainRecvData ==
    /\ pc_m = "recvfrom" /\ ndgrams < MaxDatagrams
    /\ \E d \in Datagrams : answer' = d
    /\ ndgrams' = ndgrams + 1
    /\ time_received' = now
    /\ pc_m' = "check_sender"
    /\ UNCHANGED <<other, link, cfg, shared, timer, tlocals, continue_receiving,
                   ip_m, query_m, now, what_>>

\* recvfrom(...) <= 0 with errno == EWOULDBLOCK: the receive timed out
MainRecvTimeout ==
    /\ pc_m = "recvfrom"
    /\ NextIteration
    /\ UNCHANGED <<other, link, cfg, shared, timer, tlocals, continue_receiving, env>>

\* recvfrom(...) <= 0 with another errno
MainRecvError ==
    /\ pc_m = "recvfrom"
    /\ Throw("RecvError")
    /\ UNCHANGED <<other, link, cfg, shared, timer, tlocals, now, ndgrams>>

\* the sender test left out
SenderIsDut_any(d) == TRUE

\* memcmp(sender.sin6_addr, server_.sin6_addr) == 0 && sender.sin6_port == server_.sin6_port
SenderIsDut(d) == d.from_dut

\* the checks of one datagram, in the order of the code: the name of the
\* exception thrown, or "none"
\*   sender, qdcount() < 1, sscanf(...) != 4,
\*   (ip & ((1 << (32-netmask_))-1)) >= num_req_ with a mask of k bits
Validate(d, k) ==
    IF ~SenderIsDut(d) THEN "UnexpectedSender"
    ELSE IF d.qdcount < 1 THEN "InvalidAnswer"
    ELSE IF ScanCount(d.label) # 4 THEN "InvalidQuestion"
    ELSE IF GeNum(MaskLow(ScanLabel(d.label), k), num_req_) THEN "IndexOutOfRange"
    ELSE "none"

\* the validation of the datagram up to the range test: an exception, or
\* ip holds the address of the question
MainValidate ==
    /\ pc_m = "check_sender"
    /\ \E k \in CheckMaskBits(netmask_) :
          IF Validate(answer, k) # "none"
          THEN Throw(Validate(answer, k))
          ELSE /\ ip_m' = ScanLabel(answer.label)
               /\ pc_m' = "lock2"
               /\ UNCHANGED <<continue_receiving, answer, time_received, query_m, what_>>
    /\ UNCHANGED <<other, link, cfg, shared, timer, tlocals, now, ndgrams>>

\* m_.lock()
MainLock2 ==
    /\ pc_m = "lock2" /\ m_ = "free"
    /\ m_' = "main"
    /\ pc_m' = "locate"
    /\ UNCHANGED <<other, link, cfg, num_sent_, tests_, query_label, timer, tlocals, continue_receiving,
                   answer, time_received, ip_m, query_m, env>>

\* the record index: ip & (((uint64_t) 1 << (32-netmask_))-1)
RecordIndex(ip) ==
    IF GeNum(MaskLow(ip, HostBits(netmask_)), num_req_)
    THEN OutOfBounds
    ELSE OctVal(MaskLow(ip, HostBits(netmask_)))

\* DnsQuery& query = tests_[...]; m_.unlock()
MainLocate ==
    /\ pc_m = "locate"
    /\ query_m' = RecordIndex(ip_m)
    /\ m_' = "free"
    /\ pc_m' = "set_received"
    /\ UNCHANGED <<other, link, cfg, num_sent_, tests_, query_label, timer, tlocals, continue_receiving,
                   answer, time_received, ip_m, env>>

\* query.received_ = true (a reference past the array writes foreign memory
\* and may fault)
MainSetReceived ==
    /\ pc_m = "set_received"
    /\ IF query_m \in DOMAIN tests_
       THEN /\ tests_' = [tests_ EXCEPT ![query_m].received = TRUE]
            /\ pc_m' = "set_rtt"
       ELSE /\ tests_' = tests_
            /\ \E fault \in BOOLEAN : pc_m' = IF fault THEN "crashed" ELSE "set_rtt"
    /\ UNCHANGED <<other, link, cfg, num_sent_, query_label, m_, timer, tlocals, continue_receiving,
                   answer, time_received, ip_m, query_m, env>>

\* query.rtt_ = time_received - query.time_sent_
MainSetRtt ==
    /\ pc_m = "set_rtt"
    /\ tests_' = IF query_m \in DOMAIN tests_
                 THEN [tests_ EXCEPT ![query_m].rtt = time_received - tests_[query_m].time_sent]
                 ELSE tests_
    /\ pc_m' = "set_answered"
    /\ UNCHANGED <<other, link, cfg, num_sent_, query_label, m_, timer, tlocals, continue_receiving,
                   answer, time_received, ip_m, query_m, env>>

\* query.answered_ = qr() == 1 && rcode() == NoError && ancount() > 0, the
\* header flags being whatever the datagram holds
MainSetAnswered ==
    /\ pc_m = "set_answered"
    /\ \E flags \in AnswerFlags :
          tests_' = IF query_m \in DOMAIN tests_
                    THEN [tests_ EXCEPT ![query_m].answered = IsAnswered(flags)]
                    ELSE tests_
    /\ NextIteration
    /\ UNCHANGED <<other, link, cfg, num_sent_, query_label, m_, timer, tlocals, continue_receiving, env>>

(* ------------------------- DnsTester::display -------------------------- *)
Abs(x) == IF x < 0 THEN -x ELSE x

Sign(x) == IF x < 0 THEN -1 ELSE IF x > 0 THEN 1 ELSE 0

RECURSIVE Gcd(_, _)
Gcd(a, b) == IF b = 0 THEN a ELSE Gcd(b, a % b)

\* a double, kept as the fraction n/d * 10^e in lowest terms with no factor
\* 10 in n or d; d = 0 is a non-finite value: n = 0 is NaN, n = 1 and
\* n = -1 are the infinities
RECURSIVE Dbl(_, _, _)
Dbl(n, d, e) ==
    IF d = 0 THEN [n |-> Sign(n), d |-> 0, e |-> 0]
    ELSE IF n = 0 THEN [n |-> 0, d |-> 1, e |-> 0]
    ELSE IF d < 0 THEN Dbl(-n, -d, e)
    ELSE IF n % 10 = 0 THEN Dbl(n \div 10, d, e + 1)
    ELSE IF d % 10 = 0 THEN Dbl(n, d \div 10, e - 1)
    ELSE LET g == Gcd(Abs(n), d) IN [n |-> n \div g, d |-> d \div g, e |-> e]

NaN == Dbl(0, 0, 0)

Zero == Dbl(0, 1, 0)

\* (double) k
FromInt(k) == Dbl(k, 1, 0)

\* a + b of doubles: NaN spreads, inf + -inf is NaN
DAdd(a, b) ==
    IF a.d = 0 \/ b.d = 0
    THEN IF a = NaN \/ b = NaN \/ (a.d = 0 /\ b.d = 0 /\ a.n # b.n) THEN NaN
         ELSE IF a.d = 0 THEN a ELSE b
    ELSE IF a.n = 0 THEN b
    ELSE IF b.n = 0 THEN a
    ELSE LET e == Min(a.e, b.e) IN
         Dbl(a.n * Pow10(a.e - e) * b.d + b.n * Pow10(b.e - e) * a.d, a.d * b.d, e)

\* a - b
DSub(a, b) == DAdd(a, [b EXCEPT !.n = -b.n])

\* a * b of doubles: 0 * inf is NaN
DMul(a, b) ==
    IF a.d = 0 \/ b.d = 0
    THEN IF a.n = 0 \/ b.n = 0 THEN NaN ELSE Dbl(a.n * b.n, 0, 0)
    ELSE Dbl(a.n * b.n, a.d * b.d, a.e + b.e)

\* a / b of doubles: x / 0 is an infinity, 0 / 0 is NaN, nothing traps
DDiv(a, b) ==
    DMul(a, IF b.d = 0 THEN (IF b.n = 0 THEN NaN ELSE Zero)
            ELSE Dbl(b.d, b.n, -b.e))

\* the integer r with r * r <= x < (r + 1) * (r + 1), sought in lo .. hi
RECURSIVE ISqrtIn(_, _, _)
ISqrtIn(x, lo, hi) ==
    IF lo = hi THEN lo
    ELSE LET mid == (lo + hi + 1) \div 2 IN
         IF mid * mid <= x THEN ISqrtIn(x, mid, hi) ELSE ISqrtIn(x, lo, mid - 1)

\* sqrt(a): NaN for NaN and for a negative argument; rounded down to a
\* multiple of 1/d * 10^(e/2) where the root is no such multiple
DSqrt(a) ==
    IF a.d = 0 THEN (IF a.n = 1 THEN a ELSE NaN)
    ELSE IF a.n < 0 THEN NaN
    ELSE LET odd == a.e % 2 = 1
             n   == IF odd THEN a.n * 10 ELSE a.n
             e   == IF odd THEN a.e - 1 ELSE a.e
         IN Dbl(ISqrtIn(n * a.d, 0, Min(n * a.d, 46340)), a.d, e \div 2)

\* the values of a uint16_t
Uint16 == 65536

\* the counting loop, over a record array given as runs [n, q] of n equal
\* records q: a uint16_t incremented once for each record with the field set
RECURSIVE CountField(_, _, _)
CountField(runs, field, count) ==
    IF runs = <<>> THEN count
    ELSE CountField(Tail(runs), field,
                    IF Head(runs).q[field] THEN (count + Head(runs).n) % Uint16 ELSE count)

\* tests_.size()
RECURSIVE Size(_)
Size(runs) == IF runs = <<>> THEN 0 ELSE Head(runs).n + Size(Tail(runs))

\* average += (double) rtt_.count() / num_received, for each received record
RECURSIVE AverageLoop(_, _, _)
AverageLoop(runs, num_received, average) ==
    IF runs = <<>> THEN average
    ELSE AverageLoop(Tail(runs), num_received,
             IF Head(runs).q.received
             THEN DAdd(average, DMul(FromInt(Head(runs).n),
                                     DDiv(FromInt(Head(runs).q.rtt), FromInt(num_received))))
             ELSE average)

\* standard_deviation += pow(rtt_.count() - average, 2.0), for each received record
RECURSIVE DeviationLoop(_, _, _)
DeviationLoop(runs, average, sum) ==
    IF runs = <<>> THEN sum
    ELSE DeviationLoop(Tail(runs), average,
             IF Head(runs).q.received
             THEN LET dev == DSub(FromInt(Head(runs).q.rtt), average) IN
                  DAdd(sum, DMul(FromInt(Head(runs).n), DMul(dev, dev)))
             ELSE sum)

\* the same with the factor 100 of the receive percentage
AnswerPercent_times100(num_answered, size) ==
    DMul(DDiv(FromInt(num_answered), FromInt(size)), FromInt(100))

\* ((double) num_received / tests_.size()) * 100
ReceivePercent(num_received, size) ==
    DMul(DDiv(FromInt(num_received), FromInt(size)), FromInt(100))

\* (double) num_answered / tests_.size()
AnswerPercent(num_answered, size) ==
    DDiv(FromInt(num_answered), FromInt(size))

\* x / 1000000.0, nanoseconds to milliseconds
ToMs(x) == DDiv(x, FromInt(1000000))

\* the values display() prints for a record array
Summary(runs) ==
    LET num_received == CountField(runs, "received", 0)
        num_answered == CountField(runs, "answered", 0)
        average == AverageLoop(runs, num_received, Zero)
        standard_deviation ==
            DSqrt(DDiv(DeviationLoop(runs, average, Zero), FromInt(num_received)))
    IN [sent |-> Size(runs),
        received |-> num_received,
        received_pct |-> ReceivePercent(num_received, Size(runs)),
        answered |-> num_answered,
        answered_pct |-> AnswerPercent(num_answered, Size(runs)),
        average_ms |-> ToMs(average),
        deviation_ms |-> ToMs(standard_deviation)]

\* display(), called on a record array once the run is over
Display ==
    /\ records # <<>> /\ summary = NoSummary
    /\ summary' = Summary(records)
    /\ UNCHANGED <<cfg, shared, timer, tlocals, mlocals, env, link, ulocals, records>>

\* the largest record array listed record by record
MaxRecords == 4

\* round-trip times of the listed records, in nanoseconds: 10 ms and 20 ms
Rtts == {10000000, 20000000}

\* a record after a run: never received, or received with a round-trip time
\* and answered or not
Outcomes ==
    {[time_sent |-> 0, received |-> FALSE, answered |-> FALSE, rtt |-> -1]}
    \cup {[time_sent |-> 1, received |-> TRUE, answered |-> a, rtt |-> r] :
              a \in BOOLEAN, r \in Rtts}

\* the arrays of k records, each one of the outcomes, listed one by one
Listed(k, outcomes) == [1..k -> {[n |-> 1, q |-> o] : o \in outcomes}]

\* record arrays: every array of up to MaxRecords records, and arrays of
\* 2^16 - 1 and of 2^16 received records followed by up to two records
\* never received
RecordArrays ==
    UNION {Listed(k, Outcomes) : k \in 1..MaxRecords}
    \cup {<<[n |-> c, q |-> o]>> \o rest :
              c \in {Uint16 - 1, Uint16},
              o \in {x \in Outcomes : x.received},
              rest \in UNION {Listed(k, {x \in Outcomes : ~x.received}) : k \in 0..2}}

\* the state display() is called in: the record array is all it reads
InitDisplay ==
    /\ ip_ = <<192, 0, 2, 0>> /\ netmask_ = 24
    /\ num_req_ = 1 /\ num_burst_ = 1
    /\ num_sent_ = 0
    /\ tests_ = [i \in 0..0 |-> DnsQueryInit]
    /\ query_label = FormatLabel(NoIp)
    /\ m_ = "free"
    /\ timer_on = FALSE /\ timer_n = 0 /\ timer_i = 0
    /\ pc_t = "idle" /\ i_t = 0 /\ query_t = 0
    /\ pc_m = "returned" /\ continue_receiving = FALSE
    /\ answer = NoAnswer /\ time_received = 0 /\ ip_m = NoIp /\ query_m = 0
    /\ now = 1 /\ ndgrams = 0 /\ what_ = "none"
    /\ wire = <<>> /\ lost = {}
    /\ pc_u = "idle" /\ i_u = 0 /\ query_u = 0
    /\ records \in RecordArrays /\ summary = NoSummary

SpecDisplay == InitDisplay /\ [][Display]_vars

(* --------------------------- specification ----------------------------- *)
Test ==
    \/ TimerTick \/ TestLock1 \/ TestModify \/ TestSendto
    \/ TestStamp \/ TestLock2 \/ TestInc

Start ==
    \/ MainStart \/ MainLock1 \/ MainRemaining
    \/ MainRecvData \/ MainRecvTimeout \/ MainRecvError
    \/ MainValidate
    \/ MainLock2 \/ MainLocate \/ MainSetReceived \/ MainSetRtt \/ MainSetAnswered

Next == Test \/ Start

Spec == Init /\ [][Next]_vars

\* the program with its threads scheduled fairly: a thread that can take a
\* step takes one, and a thread waiting for m_ gets it, as every holder
\* releases it after one step
FairSpec ==
    /\ Spec
    /\ WF_vars(Test) /\ WF_vars(Start)
    /\ SF_vars(TestLock1) /\ SF_vars(TestLock2)
    /\ SF_vars(MainLock1) /\ SF_vars(MainLock2)

\* the program with transmits that can fail
SpecLossy == Init /\ [][Next \/ TestSendtoShort]_vars

\* test() called while a call of it is running
TestOverlap ==
    \/ TimerTickOverlap \/ OverlapLock1 \/ OverlapModify \/ OverlapSendto
    \/ OverlapStamp \/ OverlapLock2 \/ OverlapInc

\* the program with a timer whose ticks may overlap
SpecOverlap == Init /\ [][Next \/ TestOverlap]_vars

\* the program with a timer that may call test() after the last tick
SpecStray == Init /\ [][Next \/ StrayTick]_vars

(* ------------------------------ claims --------------------------------- *)
CeilDiv(n, b) == (n + b - 1) \div b

\* the timer is started and test() is not running
BetweenTicks == timer_on /\ pc_t = "idle"

\* the timer has made its last callback and the callback has returned
TimerDone == BetweenTicks /\ timer_i = timer_n

\* sendto() has been called for the query of record i
Sent(i) == i < num_sent_ \/ (pc_t \in {"stamp", "lock2", "inc"} /\ query_t = i)

\* the correlator holds a reference to a record and is writing its fields
Writing == pc_m \in {"set_received", "set_rtt", "set_answered"}

\* the fields of the records the correlator writes
RecvFields == [i \in DOMAIN tests_ |-> <<tests_[i].received, tests_[i].answered, tests_[i].rtt>>]

\* num_req_ <= 2^(32 - netmask_), for num_req_ below 2^24
FitsHostBits == HostBits(netmask_) >= 24 \/ num_req_ <= Pow2(HostBits(netmask_))

\* the base address has no host-ID bit set
BaseIsNetwork == MaskLow(ip_, HostBits(netmask_)) = NoIp

\* C1: the scheduler is ticked ceil(num_requests / burst_size) times, after
\* k ticks min(k * burst_size, num_requests) queries are sent (every tick
\* but the last sends burst_size, the last the remainder), and when the
\* timer is done the queries sent sum to num_requests.
C1_BurstSchedule ==
    /\ BetweenTicks => num_sent_ = Min(timer_i * num_burst_, num_req_)
    /\ TimerDone => (timer_i = CeilDiv(num_req_, num_burst_) /\ num_sent_ = num_req_)

\* C2: in every reachable state 0 <= num_sent <= num_requests, and no step
\* decreases num_sent.
C2_NumSentBounded ==
    /\ [](0 <= num_sent_ /\ num_sent_ <= num_req_)
    /\ [][num_sent_' >= num_sent_]_vars

C2_Witness == num_sent_ = num_req_ /\ num_req_ > 1 /\ ndgrams > 0 /\ pc_m = "recvfrom"

\* C3: while the correlator writes received, rtt and answered of a record
\* it holds the shared lock.
C3_WritesUnderLock == Writing => m_ = "main"

\* C4: the scheduler does not hold the lock at its transmit step, and the
\* receive loop does not hold it at its blocking receive step.
C4_NoLockDuringIO ==
    /\ pc_t = "sendto" => m_ # "timer"
    /\ pc_m = "recvfrom" => m_ # "main"

C4_Witness == pc_t = "sendto" /\ pc_m = "recvfrom" /\ num_sent_ > 0

\* C5: when the correlator reads time_sent of record i to compute rtt for
\* an answer to a query that was sent, the scheduler has written time_sent
\* of record i.
C5_TimeSentWrittenBeforeRead ==
    (pc_m = "set_rtt" /\ query_m \in DOMAIN tests_ /\ Sent(query_m))
        => tests_[query_m].time_sent # 0

\* C6: the correlator writes received, answered and rtt of a record at most
\* once: it never starts to write a record that is already received.
C6_RecordWrittenAtMostOnce ==
    (pc_m = "set_received" /\ query_m \in DOMAIN tests_) => ~tests_[query_m].received

\* C7: for every record, answered implies received.
C7_AnsweredImpliesReceived ==
    \A i \in DOMAIN tests_ : tests_[i].answered => tests_[i].received

C7_Witness == \E i \in DOMAIN tests_ : tests_[i].answered /\ num_sent_ = num_req_

\* a datagram from a foreign sender is never correlated, and once start() has
\* thrown UnexpectedSender the correlator changes no record and the receive
\* loop takes no further datagram
AbortStopsReceiver ==
    /\ [](pc_m \in {"lock2", "locate", "set_received", "set_rtt", "set_answered"}
            => answer.from_dut)
    /\ [](what_ = "UnexpectedSender" => pc_m = "thrown")
    /\ [][what_' = "UnexpectedSender" => (RecvFields' = RecvFields /\ ndgrams' <= ndgrams + 1)]_vars
    /\ [][what_ = "UnexpectedSender" => (pc_m' = pc_m /\ ndgrams' = ndgrams)]_vars

C9_IndexInRange ==
    /\ pc_m \in {"lock2", "locate"} => RecordIndex(ip_m) # OutOfBounds
    /\ Writing => query_m \in DOMAIN tests_

\* C10 as stated: with num_requests <= 2^(32 - netmask), the address label
\* the scheduler writes for index i decodes back to index i, for every
\* base_ip.
C10_RoundTripAnyBase ==
    (pc_t = "sendto" /\ FitsHostBits)
        => RecordIndex(ScanLabel(query_label)) = query_t

\* C10 as amended: the same for every base_ip with no host-ID bit set.
C10_RoundTrip ==
    (pc_t = "sendto" /\ FitsHostBits /\ BaseIsNetwork)
        => RecordIndex(ScanLabel(query_label)) = query_t

C10_Witness ==
    /\ pc_t = "sendto" /\ FitsHostBits /\ BaseIsNetwork
    /\ query_t = 1 /\ netmask_ = 24
    /\ RecordIndex(ScanLabel(query_label)) = 1


\* time_sent_ of every record
TimeSent == [i \in DOMAIN tests_ |-> tests_[i].time_sent]

\* test() is running and was called with num_sent_ = num_req_
TickInDone == pc_t \notin {"idle", "crashed"} /\ num_sent_ - i_t = num_req_

\* C13: a call of test() made when num_sent_ = num_req_ does nothing: it
\* sends no packet, leaves num_sent_ and the query label as they are and
\* writes no time_sent_
C13_StrayTickNoOp ==
    [][TickInDone => /\ wire' = wire
                     /\ num_sent_' = num_sent_
                     /\ query_label' = query_label
                     /\ TimeSent' = TimeSent]_vars

\* C15: the queries go out in index order, the k-th one carrying
\* ip_ | (k - 1), and every index below num_sent_ has been sent and has its
\* time_sent_ written; no index is sent twice or left out
C15_InOrderOnce ==
    /\ \A k \in 1..Len(wire) : wire[k] = FormatLabel(OrIp(ip_, k - 1))
    /\ \A i \in DOMAIN tests_ : i < num_sent_ => (i < Len(wire) /\ tests_[i].time_sent # 0)

\* a failed transmit does not stop the scheduler: the record's time_sent_ is
\* written before num_sent_ passes it, and all the queries the timer's ticks
\* cover are counted as sent
ShortWriteGoesOn ==
    /\ pc_t # "crashed"
    /\ \A i \in lost : i < num_sent_ => tests_[i].time_sent # 0
    /\ TimerDone => num_sent_ = timer_n * num_burst_

\* C16: a failed transmit of query i is not fatal: nothing is thrown for it,
\* time_sent_ of record i is still written, num_sent_ goes on past i and the
\* later queries are sent, and record i is never marked received
C16_ShortWriteNonFatal ==
    /\ ShortWriteGoesOn
    /\ \A i \in lost : ~tests_[i].received

\* start() is over: it has returned, thrown, or faulted
StartOver == pc_m \in {"returned", "thrown", "crashed"}

\* where num_burst_ divides num_req_ the receive loop terminates
TerminatesWhenDivisible == (num_req_ % num_burst_ = 0) => <>StartOver

\* C17: for every num_req_ >= 1 and num_burst_ >= 1, with all ticks
\* delivered and every receive call returning, the receive loop of start()
\* terminates unless start() throws
C17_ReceiveLoopTerminates == <>StartOver

\* C14 as stated: once the receive loop has observed num_req_ - num_sent_ = 0
\* its only further step is to return; it makes no receive call and changes
\* no record
C14_StopsAtObservation ==
    [][~continue_receiving => (pc_m' \in {pc_m, "returned"} /\ RecvFields' = RecvFields)]_vars

\* C14: once the receive loop has observed num_req_ - num_sent_ = 0 it never
\* starts another iteration: it makes the one receive call that follows the
\* observation, handles the datagram if one arrives, and leaves the loop
C14_OneLastReceive ==
    [][~continue_receiving =>
          /\ pc_m' \notin {"lock1", "remaining"}
          /\ (pc_m # "recvfrom" => ndgrams' = ndgrams)]_vars

\* a record is being written after the observation
C14_Witness == ~continue_receiving /\ pc_m = "set_rtt"

\* C18: a record is marked received only once its query counts as sent,
\* i.e. its index is below num_sent_
C18_ReceivedImpliesSent ==
    \A i \in DOMAIN tests_ : tests_[i].received => i < num_sent_

\* C19: wherever test() takes the record at num_sent_, and for as long as it
\* uses that reference, the index is below num_req_
C19_SchedulerIndexInRange ==
    /\ pc_t = "modify" => num_sent_ < num_req_
    /\ pc_t \in {"sendto", "stamp"} => query_t \in DOMAIN tests_

\* test() is about to stamp the last record of a run of several
C19_Witness == pc_t = "stamp" /\ query_t = num_req_ - 1 /\ num_req_ > 1

(* ------------------------- claims on display() ------------------------- *)
\* the number of records of an array with a field set, not cut to any width
RECURSIVE ExactCount(_, _)
ExactCount(runs, field) ==
    IF runs = <<>> THEN 0
    ELSE (IF Head(runs).q[field] THEN Head(runs).n ELSE 0) + ExactCount(Tail(runs), field)

Printed == summary # NoSummary

\* two doubles are the same number (NaN is no number)
DEq(a, b) == a.d # 0 /\ b.d # 0 /\ DSub(a, b).n = 0

\* C11: when no record is received the summary is still produced, and the
\* mean and the standard deviation it prints are both 0
C11_NoAnswerZeroStatistics ==
    (Printed /\ ExactCount(records, "received") = 0)
        => (DEq(summary.average_ms, Zero) /\ DEq(summary.deviation_ms, Zero))

\* 4 requests, the records 0 and 2 answered after 10 ms and 20 ms
Scenario12 ==
    << [n |-> 1, q |-> [time_sent |-> 1, received |-> TRUE, answered |-> TRUE, rtt |-> 10000000]],
       [n |-> 1, q |-> [time_sent |-> 0, received |-> FALSE, answered |-> FALSE, rtt |-> -1]],
       [n |-> 1, q |-> [time_sent |-> 1, received |-> TRUE, answered |-> TRUE, rtt |-> 20000000]],
       [n |-> 1, q |-> [time_sent |-> 0, received |-> FALSE, answered |-> FALSE, rtt |-> -1]] >>

\* the scenario's values other than the answer percentage
Scenario12_Statistics ==
    (Printed /\ records = Scenario12)
        => /\ summary.sent = 4
           /\ summary.received = 2 /\ DEq(summary.received_pct, FromInt(50))
           /\ summary.answered = 2
           /\ DEq(summary.average_ms, FromInt(15)) /\ DEq(summary.deviation_ms, FromInt(5))

\* C12: in the scenario the summary reports 2 of 4 received (50 %), 2
\* answered with the answer percentage 50, the mean 15 ms and the standard
\* deviation 5 ms; for every record array the answer percentage is
\* 100 * answered / num_requests, as the receive percentage is
C12_AnswerPercentage ==
    /\ Scenario12_Statistics
    /\ (Printed /\ records = Scenario12) => DEq(summary.answered_pct, FromInt(50))
    /\ Printed => DEq(summary.answered_pct, Dbl(100 * summary.answered, summary.sent, 0))

\* C20: the received and the answered count of the summary are the numbers
\* of records with received and with answered set, for every record array
C20_CountsExact ==
    Printed => /\ summary.received = ExactCount(records, "received")
               /\ summary.answered = ExactCount(records, "answered")

====
